---- MODULE Spec2Model ----
(***************************************************************************)
(* Model of the flow-diagram highlighting engine                           *)
(* (src/lib/highlighting-logic.ts): calculateHighlighting,                 *)
(* applyNodeHighlighting, applyEdgeHighlighting, applyCompleteHighlighting *)
(* and of the Flow component that renders with it (src/unnamed/part_000).  *)
(* The Flow component of src/changes/flow-diagram.tsx, which highlights    *)
(* with its own getCluster instead, is modelled beside it.                 *)
(*                                                                         *)
(* Conventions                                                             *)
(*  - a string | null value is a string; null is the sentinel Null, which  *)
(*    is no member of NodeIds.  The empty string "" is a genuine string.   *)
(*  - opacities are in hundredths (0.3 is 30, 1 is 100).                   *)
(*  - a style object is a function from its keys to their values; an       *)
(*    undefined style is the function with the empty domain (spreading     *)
(*    undefined spreads no key).                                           *)
(*  - an edge's animated flag is a boolean; undefined reads as FALSE.      *)
(***************************************************************************)
EXTENDS Integers, Sequences, FiniteSets, TLC

VARIABLES
    op,                 \* the exported function that is being called
    pc,                 \* position in its body
    nodes,              \* argument nodes: Node[]
    edges,              \* argument edges: Edge[]
    selectedNodeId,     \* argument selectedNodeId: string | null
    config,             \* argument config: HighlightingConfig
    highlightingResult, \* argument / local const / return value
    styledNodes,        \* return value / local const
    styledEdges,        \* return value / local const
    viewport,           \* Flow: width and height of the React Flow store
    event,              \* Flow: the event handled last
    activeIds           \* flow-diagram.tsx: the cluster of the clicked node

vars == <<op, pc, nodes, edges, selectedNodeId, config,
          highlightingResult, styledNodes, styledEdges, viewport, event,
          activeIds>>

-----------------------------------------------------------------------------
(* Bounds of the inputs *)

MaxEdges == 2
MaxNodes == 2

Null == "<null>"

NodeIds == {"", "n1", "n2", "n3"}
EdgeIds == {"e1", "e2"}
NodeTypes == {"custom", "background"}

Selections == NodeIds \cup {Null}

SeqsUpTo(S, n) == UNION {[1..k -> S] : k \in 0..n}

NoStyle == <<>>

-----------------------------------------------------------------------------
(* Configuration *)

DEFAULT_HIGHLIGHTING_CONFIG ==
    [dimmedOpacity          |-> 30,
     highlightedOpacity     |-> 100,
     highlightedStrokeWidth |-> 3,
     normalStrokeWidth      |-> 2,
     highlightedEdgeColor   |-> "#3b82f6",
     normalEdgeColor        |-> "#6b7280"]

\* a caller-supplied configuration that differs from the default in every knob
OTHER_HIGHLIGHTING_CONFIG ==
    [dimmedOpacity          |-> 50,
     highlightedOpacity     |-> 90,
     highlightedStrokeWidth |-> 5,
     normalStrokeWidth      |-> 1,
     highlightedEdgeColor   |-> "#ff6b6b",
     normalEdgeColor        |-> "#000000"]

Configs == {DEFAULT_HIGHLIGHTING_CONFIG, OTHER_HIGHLIGHTING_CONFIG}

-----------------------------------------------------------------------------
(* JavaScript primitives *)

\* slip: the test is written as selectedNodeId !== null
Truthy_NullOnly(s) == s # Null

\* truthiness of a string | null: null and "" are falsy
Truthy(s) == s # Null /\ s # ""

\* { ...style, ...overrides }
Spread(style, overrides) ==
    [k \in (DOMAIN style) \cup (DOMAIN overrides) |->
        IF k \in DOMAIN overrides THEN overrides[k] ELSE style[k]]

-----------------------------------------------------------------------------
(* calculateHighlighting *)

EmptyResult == [highlightedNodes |-> {}, highlightedEdges |-> {}]

\* slip: only the source end is compared
isConnectedToSelected_SourceOnly(edge, selected) ==
    edge.source = selected

isConnectedToSelected(edge, selected) ==
    edge.source = selected \/ edge.target = selected

\* slip: the endpoints are added outside the if
visitEdge_EndpointsUnguarded(acc, edge, selected) ==
    [highlightedNodes |-> acc.highlightedNodes \cup {edge.source, edge.target},
     highlightedEdges |-> IF edge.source = selected \/ edge.target = selected
                          THEN acc.highlightedEdges \cup {edge.id}
                          ELSE acc.highlightedEdges]

\* slip: the sets are assigned, not added to, so the last incident edge wins
visitEdge_LastWins(acc, edge, selected) ==
    IF edge.source = selected \/ edge.target = selected
    THEN [highlightedNodes |-> {selected, edge.source, edge.target},
          highlightedEdges |-> {edge.id}]
    ELSE acc

\* slip: only the target end of an incident edge is added to the node set
visitEdge_TargetOnly(acc, edge, selected) ==
    IF edge.source = selected \/ edge.target = selected
    THEN [highlightedNodes |-> acc.highlightedNodes \cup {edge.target},
          highlightedEdges |-> acc.highlightedEdges \cup {edge.id}]
    ELSE acc

\* the body of the forEach callback
visitEdge(acc, edge, selected) ==
    IF isConnectedToSelected(edge, selected)
    THEN [highlightedNodes |-> acc.highlightedNodes \cup {edge.source, edge.target},
          highlightedEdges |-> acc.highlightedEdges \cup {edge.id}]
    ELSE acc

RECURSIVE forEachEdge(_, _, _, _)
forEachEdge(es, i, acc, selected) ==
    IF i > Len(es) THEN acc
    ELSE forEachEdge(es, i + 1, visitEdge(acc, es[i], selected), selected)

\* the sets the function starts from (lines 67-68)
\* slip: the node set starts empty
initialSets_Empty(selected) ==
    [highlightedNodes |-> {}, highlightedEdges |-> {}]

initialSets(selected) ==
    [highlightedNodes |-> {selected}, highlightedEdges |-> {}]

\* slip: the early return for a missing selection is left out
calculateHighlighting_NoEarlyReturn(selected, es) ==
    forEachEdge(es, 1, [highlightedNodes |-> {selected}, highlightedEdges |-> {}], selected)

calculateHighlighting(selected, es) ==
    IF ~Truthy(selected)
    THEN EmptyResult
    ELSE forEachEdge(es, 1, initialSets(selected), selected)

-----------------------------------------------------------------------------
(* applyNodeHighlighting *)

\* slip: background nodes are dimmed like any other node
nodeOpacity_NoBackgroundExemption(node, result, selected, cfg) ==
    IF Truthy(selected)
    THEN IF node.id \in result.highlightedNodes
         THEN cfg.highlightedOpacity
         ELSE cfg.dimmedOpacity
    ELSE cfg.highlightedOpacity

\* slip: only the selected node itself counts as highlighted
nodeOpacity_SelectedOnly(node, result, selected, cfg) ==
    IF Truthy(selected)
    THEN IF node.id = selected \/ node.type = "background"
         THEN cfg.highlightedOpacity
         ELSE cfg.dimmedOpacity
    ELSE cfg.highlightedOpacity

\* slip: the test for a selection is left out
nodeOpacity_NoSelectionTest(node, result, selected, cfg) ==
    IF node.id \in result.highlightedNodes \/ node.type = "background"
    THEN cfg.highlightedOpacity
    ELSE cfg.dimmedOpacity

\* the opacity computed for one node by the map callback
nodeOpacity(node, result, selected, cfg) ==
    IF Truthy(selected)
    THEN LET isHighlighted    == node.id \in result.highlightedNodes
             isBackgroundNode == node.type = "background"
         IN  IF isHighlighted \/ isBackgroundNode
             THEN cfg.highlightedOpacity
             ELSE cfg.dimmedOpacity
    ELSE cfg.highlightedOpacity

\* slip: the style object is rebuilt without spreading node.style
styleNode_StyleReplaced(node, result, selected, cfg) ==
    [node EXCEPT !.style = [opacity |-> nodeOpacity(node, result, selected, cfg)]]

\* { ...node, style: { ...node.style, opacity } }
styleNode(node, result, selected, cfg) ==
    [node EXCEPT !.style =
        Spread(node.style, [opacity |-> nodeOpacity(node, result, selected, cfg)])]

applyNodeHighlighting(ns, result, selected, cfg) ==
    [i \in 1..Len(ns) |-> styleNode(ns[i], result, selected, cfg)]

-----------------------------------------------------------------------------
(* applyEdgeHighlighting *)

isHighlightedEdge(edge, result) == edge.id \in result.highlightedEdges

strokeWidth(edge, result, cfg) ==
    IF isHighlightedEdge(edge, result)
    THEN cfg.highlightedStrokeWidth
    ELSE cfg.normalStrokeWidth

strokeColor(edge, result, cfg) ==
    IF isHighlightedEdge(edge, result)
    THEN cfg.highlightedEdgeColor
    ELSE cfg.normalEdgeColor

\* slip: the test for a selection is left out
edgeOpacity_NoSelectionTest(edge, result, selected, cfg) ==
    IF isHighlightedEdge(edge, result)
    THEN cfg.highlightedOpacity
    ELSE cfg.dimmedOpacity

edgeOpacity(edge, result, selected, cfg) ==
    IF Truthy(selected)
    THEN IF isHighlightedEdge(edge, result)
         THEN cfg.highlightedOpacity
         ELSE cfg.dimmedOpacity
    ELSE cfg.highlightedOpacity

\* slip: an edge is animated only while a node is selected
styleEdge_AnimatedNeedsSelection(edge, result, selected, cfg) ==
    [edge EXCEPT
        !.style = Spread(edge.style,
                         [strokeWidth |-> strokeWidth(edge, result, cfg),
                          stroke      |-> strokeColor(edge, result, cfg),
                          opacity     |-> edgeOpacity(edge, result, selected, cfg)]),
        !.animated = isHighlightedEdge(edge, result) /\ Truthy(selected)]

\* { ...edge, style: { ...edge.style, strokeWidth, stroke, opacity }, animated }
styleEdge(edge, result, selected, cfg) ==
    [edge EXCEPT
        !.style = Spread(edge.style,
                         [strokeWidth |-> strokeWidth(edge, result, cfg),
                          stroke      |-> strokeColor(edge, result, cfg),
                          opacity     |-> edgeOpacity(edge, result, selected, cfg)]),
        !.animated = isHighlightedEdge(edge, result)]

applyEdgeHighlighting(es, result, selected, cfg) ==
    [i \in 1..Len(es) |-> styleEdge(es[i], result, selected, cfg)]

-----------------------------------------------------------------------------
(* The inputs a caller can pass *)

\* style objects found on nodes: none, or one left by an earlier render
NodeStyles == {NoStyle, [opacity |-> 30, width |-> "150px"]}

Nodes == [id : NodeIds, type : NodeTypes, style : NodeStyles]

\* edges as calculateHighlighting reads them: id, source, target
GraphEdges == [id : EdgeIds, source : NodeIds, target : NodeIds,
               style : {NoStyle}, animated : {FALSE}]

\* edges as applyEdgeHighlighting reads them: id, style, animated
EdgeStyles == {NoStyle,
               [strokeWidth |-> 2, stroke |-> "#6b7280"],
               [stroke |-> "#ff0000", opacity |-> 30, strokeDasharray |-> "5,5"]}

PaintedEdges == [id : EdgeIds, source : {"n1"}, target : {"n2"},
                 style : EdgeStyles, animated : BOOLEAN]

sampleNodes ==
    << [id |-> "n1", type |-> "custom",     style |-> NoStyle],
       [id |-> "n2", type |-> "custom",     style |-> NoStyle],
       [id |-> "n3", type |-> "custom",     style |-> NoStyle],
       [id |-> "",   type |-> "background", style |-> [width |-> "150px"]] >>

sampleEdges ==
    << [id |-> "e1", source |-> "n1", target |-> "n2", style |-> NoStyle, animated |-> FALSE],
       [id |-> "e2", source |-> "n2", target |-> "n3", style |-> NoStyle, animated |-> FALSE] >>

NodeResults == [highlightedNodes : SUBSET NodeIds, highlightedEdges : {{}}]
EdgeResults == [highlightedNodes : {{}}, highlightedEdges : SUBSET EdgeIds]

-----------------------------------------------------------------------------
(* Initial states: a call of one exported function with its arguments *)

InitCalculate ==
    /\ op = "calculateHighlighting"
    /\ edges \in SeqsUpTo(GraphEdges, MaxEdges)
    /\ selectedNodeId \in Selections
    /\ nodes = <<>>
    /\ config = DEFAULT_HIGHLIGHTING_CONFIG
    /\ highlightingResult = EmptyResult

InitNodeHighlighting ==
    /\ op = "applyNodeHighlighting"
    /\ nodes \in SeqsUpTo(Nodes, MaxNodes)
    /\ highlightingResult \in NodeResults
    /\ selectedNodeId \in Selections
    /\ config \in Configs
    /\ edges = <<>>

InitEdgeHighlighting ==
    /\ op = "applyEdgeHighlighting"
    /\ edges \in SeqsUpTo(PaintedEdges, MaxEdges)
    /\ highlightingResult \in EdgeResults
    /\ selectedNodeId \in Selections
    /\ config \in Configs
    /\ nodes = <<>>

InitComplete ==
    /\ op = "applyCompleteHighlighting"
    /\ \/ /\ nodes = sampleNodes
          /\ edges \in SeqsUpTo(GraphEdges, MaxEdges)
          /\ config \in Configs
       \/ /\ nodes \in SeqsUpTo(Nodes, MaxNodes)
          /\ edges = sampleEdges
          /\ config \in Configs
    /\ selectedNodeId \in Selections
    /\ highlightingResult = EmptyResult

\* no Flow component is mounted while a function is called on its own
NoViewport == [width |-> 0, height |-> 0]
NoEvent == [kind |-> "none", id |-> Null, type |-> Null]

Init ==
    /\ pc = "start"
    /\ styledNodes = <<>>
    /\ styledEdges = <<>>
    /\ viewport = NoViewport
    /\ event = NoEvent
    /\ activeIds = {}
    /\ \/ InitCalculate
       \/ InitNodeHighlighting
       \/ InitEdgeHighlighting
       \/ InitComplete

-----------------------------------------------------------------------------
(* Actions *)

CallCalculateHighlighting ==
    /\ op = "calculateHighlighting"
    /\ pc = "start"
    /\ highlightingResult' = calculateHighlighting(selectedNodeId, edges)
    /\ pc' = "done"
    /\ UNCHANGED <<activeIds, viewport, event, op, nodes, edges, selectedNodeId, config, styledNodes, styledEdges>>

\* slip: the opacity is assigned on the caller's node objects
CallApplyNodeHighlighting_InPlace ==
    /\ op = "applyNodeHighlighting"
    /\ pc = "start"
    /\ styledNodes' = applyNodeHighlighting(nodes, highlightingResult, selectedNodeId, config)
    /\ nodes' = styledNodes'
    /\ pc' = "done"
    /\ UNCHANGED <<activeIds, viewport, event, op, edges, selectedNodeId, config, highlightingResult, styledEdges>>

CallApplyNodeHighlighting ==
    /\ op = "applyNodeHighlighting"
    /\ pc = "start"
    /\ styledNodes' = applyNodeHighlighting(nodes, highlightingResult, selectedNodeId, config)
    /\ pc' = "done"
    /\ UNCHANGED <<activeIds, viewport, event, op, nodes, edges, selectedNodeId, config, highlightingResult, styledEdges>>

CallApplyEdgeHighlighting ==
    /\ op = "applyEdgeHighlighting"
    /\ pc = "start"
    /\ styledEdges' = applyEdgeHighlighting(edges, highlightingResult, selectedNodeId, config)
    /\ pc' = "done"
    /\ UNCHANGED <<activeIds, viewport, event, op, nodes, edges, selectedNodeId, config, highlightingResult, styledNodes>>

\* applyCompleteHighlighting, statement by statement
CompleteCalculate ==
    /\ op = "applyCompleteHighlighting"
    /\ pc = "start"
    /\ highlightingResult' = calculateHighlighting(selectedNodeId, edges)
    /\ pc' = "calculated"
    /\ UNCHANGED <<activeIds, viewport, event, op, nodes, edges, selectedNodeId, config, styledNodes, styledEdges>>

\* slip: the nodes are styled from an empty result, not from the one computed
CompleteStyleNodes_StaleResult ==
    /\ op = "applyCompleteHighlighting"
    /\ pc = "calculated"
    /\ styledNodes' = applyNodeHighlighting(nodes, EmptyResult, selectedNodeId, config)
    /\ pc' = "nodesStyled"
    /\ UNCHANGED <<activeIds, viewport, event, op, nodes, edges, selectedNodeId, config, highlightingResult, styledEdges>>

CompleteStyleNodes ==
    /\ op = "applyCompleteHighlighting"
    /\ pc = "calculated"
    /\ styledNodes' = applyNodeHighlighting(nodes, highlightingResult, selectedNodeId, config)
    /\ pc' = "nodesStyled"
    /\ UNCHANGED <<activeIds, viewport, event, op, nodes, edges, selectedNodeId, config, highlightingResult, styledEdges>>

CompleteStyleEdges ==
    /\ op = "applyCompleteHighlighting"
    /\ pc = "nodesStyled"
    /\ styledEdges' = applyEdgeHighlighting(edges, highlightingResult, selectedNodeId, config)
    /\ pc' = "done"
    /\ UNCHANGED <<activeIds, viewport, event, op, nodes, edges, selectedNodeId, config, highlightingResult, styledNodes>>

Next ==
    \/ CallCalculateHighlighting
    \/ CallApplyNodeHighlighting
    \/ CallApplyEdgeHighlighting
    \/ CompleteCalculate
    \/ CompleteStyleNodes
    \/ CompleteStyleEdges

Spec == Init /\ [][Next]_vars

TypeOK ==
    /\ pc \in {"start", "calculated", "nodesStyled", "done"}
    /\ selectedNodeId \in Selections
    /\ Len(styledNodes) \in {0, Len(nodes)}
    /\ Len(styledEdges) \in {0, Len(edges)}

-----------------------------------------------------------------------------
(* Where the results of the calls can be read *)

CalculateReturned == op = "calculateHighlighting" /\ pc = "done"

\* styledNodes holds the result of applyNodeHighlighting
NodesStyled ==
    \/ op = "applyNodeHighlighting" /\ pc = "done"
    \/ op = "applyCompleteHighlighting" /\ pc \in {"nodesStyled", "done"}

\* styledEdges holds the result of applyEdgeHighlighting
EdgesStyled ==
    \/ op = "applyEdgeHighlighting" /\ pc = "done"
    \/ op = "applyCompleteHighlighting" /\ pc = "done"

CompleteReturned == op = "applyCompleteHighlighting" /\ pc = "done"

\* edge i of the argument has the selection as its source or its target
Incident(i) ==
    edges[i].source = selectedNodeId \/ edges[i].target = selectedNodeId

UniqueEdgeIds ==
    \A i, j \in DOMAIN edges : edges[i].id = edges[j].id => i = j

-----------------------------------------------------------------------------
(* C1 *)

\* C1 as stated: for every non-null selected id and every edge e of the
\* sequence, e.id is in highlightedEdges iff e.source or e.target equals
\* the selection.
C1_AsStated ==
    (CalculateReturned /\ selectedNodeId # Null) =>
        \A i \in DOMAIN edges :
            edges[i].id \in highlightingResult.highlightedEdges <=> Incident(i)

\* C1 amended: for every selected id that is neither null nor the empty
\* string and every edge e of the sequence, e.id is in highlightedEdges iff
\* some edge of the sequence that carries the id e.id has the selection as
\* source or target; with edge ids unique in the sequence, iff e itself has.
C1_HighlightedEdges ==
    (CalculateReturned /\ selectedNodeId # Null /\ selectedNodeId # "") =>
        /\ \A i \in DOMAIN edges :
              edges[i].id \in highlightingResult.highlightedEdges
                <=> \E j \in DOMAIN edges : edges[j].id = edges[i].id /\ Incident(j)
        /\ UniqueEdgeIds =>
              \A i \in DOMAIN edges :
                 edges[i].id \in highlightingResult.highlightedEdges <=> Incident(i)

\* one edge enters by its target only, another edge is not incident
C1_Witness ==
    /\ CalculateReturned
    /\ selectedNodeId # Null /\ selectedNodeId # ""
    /\ UniqueEdgeIds
    /\ \E i, j \in DOMAIN edges :
          /\ edges[i].target = selectedNodeId /\ edges[i].source # selectedNodeId
          /\ ~Incident(j)
          /\ edges[i].id \in highlightingResult.highlightedEdges
          /\ edges[j].id \notin highlightingResult.highlightedEdges

-----------------------------------------------------------------------------
(* C2 *)

\* the ids one hop from the selection
Neighbours ==
    {edges[i].source : i \in {j \in DOMAIN edges : Incident(j)}}
      \cup {edges[i].target : i \in {j \in DOMAIN edges : Incident(j)}}

\* n is joined to a neighbour of the selection but not to the selection
TwoHopsAway(n) ==
    /\ n # selectedNodeId
    /\ n \notin Neighbours
    /\ \E i \in DOMAIN edges :
          \/ edges[i].source = n /\ edges[i].target \in Neighbours
          \/ edges[i].target = n /\ edges[i].source \in Neighbours

\* C2: for a selection that is present, highlightedNodes is exactly the
\* selection together with the source and target of every edge incident to
\* it; a node two hops away is never in highlightedNodes.
C2_HighlightedNodes ==
    (CalculateReturned /\ Truthy(selectedNodeId)) =>
        /\ highlightingResult.highlightedNodes = {selectedNodeId} \cup Neighbours
        /\ \A n \in NodeIds :
              TwoHopsAway(n) => n \notin highlightingResult.highlightedNodes

C2_Witness ==
    /\ CalculateReturned
    /\ Truthy(selectedNodeId)
    /\ \E n \in NodeIds :
          TwoHopsAway(n) /\ n \notin highlightingResult.highlightedNodes
    /\ Cardinality(highlightingResult.highlightedNodes) = 2

-----------------------------------------------------------------------------
(* C3 *)

\* C3: with a null selection calculateHighlighting returns two empty sets,
\* whatever the edge sequence.
C3_NullSelection ==
    (CalculateReturned /\ selectedNodeId = Null) =>
        /\ highlightingResult.highlightedNodes = {}
        /\ highlightingResult.highlightedEdges = {}

C3_Witness ==
    /\ CalculateReturned
    /\ selectedNodeId = Null
    /\ Len(edges) = MaxEdges
    /\ highlightingResult = EmptyResult

-----------------------------------------------------------------------------
(* C4 *)

\* C4: a selection that is present is a member of highlightedNodes; when no
\* edge is incident to it, highlightedNodes is {selected} and
\* highlightedEdges is empty.
C4_SelectedHighlighted ==
    (CalculateReturned /\ Truthy(selectedNodeId)) =>
        /\ selectedNodeId \in highlightingResult.highlightedNodes
        /\ (\A i \in DOMAIN edges : ~Incident(i)) =>
              /\ highlightingResult.highlightedNodes = {selectedNodeId}
              /\ highlightingResult.highlightedEdges = {}

\* the selection is isolated although the sequence has edges
C4_Witness ==
    /\ CalculateReturned
    /\ Truthy(selectedNodeId)
    /\ edges # <<>>
    /\ \A i \in DOMAIN edges : ~Incident(i)
    /\ highlightingResult.highlightedNodes = {selectedNodeId}

-----------------------------------------------------------------------------
(* C5 *)

\* C5: a node of type "background" gets config.highlightedOpacity, whatever
\* the highlight result, the selection and the config; it never gets
\* dimmedOpacity.
C5_BackgroundExempt ==
    NodesStyled =>
        \A i \in DOMAIN nodes :
            nodes[i].type = "background" =>
                /\ styledNodes[i].style.opacity = config.highlightedOpacity
                /\ styledNodes[i].style.opacity # config.dimmedOpacity

\* a background node outside the highlighted set while a node is selected
C5_Witness ==
    /\ NodesStyled
    /\ Truthy(selectedNodeId)
    /\ \E i \in DOMAIN nodes :
          /\ nodes[i].type = "background"
          /\ nodes[i].id \notin highlightingResult.highlightedNodes
          /\ styledNodes[i].style.opacity = config.highlightedOpacity

-----------------------------------------------------------------------------
(* C6 *)

\* C6: while a selection is present a node gets config.highlightedOpacity if
\* its id is in highlightedNodes or its type is "background", and
\* config.dimmedOpacity otherwise.
C6_NodeOpacity ==
    (NodesStyled /\ Truthy(selectedNodeId)) =>
        \A i \in DOMAIN nodes :
            styledNodes[i].style.opacity =
                IF \/ nodes[i].id \in highlightingResult.highlightedNodes
                   \/ nodes[i].type = "background"
                THEN config.highlightedOpacity
                ELSE config.dimmedOpacity

\* a highlighted node that is not the selection, next to a dimmed node
C6_Witness ==
    /\ NodesStyled
    /\ Truthy(selectedNodeId)
    /\ \E i, j \in DOMAIN nodes :
          /\ nodes[i].type = "custom" /\ nodes[i].id # selectedNodeId
          /\ nodes[i].id \in highlightingResult.highlightedNodes
          /\ styledNodes[i].style.opacity = config.highlightedOpacity
          /\ nodes[j].type = "custom"
          /\ nodes[j].id \notin highlightingResult.highlightedNodes
          /\ styledNodes[j].style.opacity = config.dimmedOpacity

-----------------------------------------------------------------------------
(* C7 *)

\* C7: while the selection is absent every node gets
\* config.highlightedOpacity, whatever its type and whatever the highlight
\* result holds.
C7_NoSelectionFullOpacity ==
    (NodesStyled /\ (selectedNodeId = Null \/ selectedNodeId = "")) =>
        \A i \in DOMAIN nodes :
            styledNodes[i].style.opacity = config.highlightedOpacity

\* no selection, a non-empty highlighted set and a custom node outside it
C7_Witness ==
    /\ NodesStyled
    /\ selectedNodeId = Null
    /\ highlightingResult.highlightedNodes # {}
    /\ \E i \in DOMAIN nodes :
          /\ nodes[i].type = "custom"
          /\ nodes[i].id \notin highlightingResult.highlightedNodes
          /\ styledNodes[i].style.opacity = config.highlightedOpacity

-----------------------------------------------------------------------------
(* C8 *)

\* C8: strokeWidth, stroke and animated of a styled edge depend only on
\* whether the edge's id is in highlightedEdges, not on the selection:
\* highlightedStrokeWidth, highlightedEdgeColor, TRUE for a highlighted edge,
\* normalStrokeWidth, normalEdgeColor, FALSE for any other
\* (3, "#3b82f6", TRUE and 2, "#6b7280", FALSE under the default config).
C8_EdgeStroke ==
    EdgesStyled =>
        \A i \in DOMAIN edges :
            IF edges[i].id \in highlightingResult.highlightedEdges
            THEN /\ styledEdges[i].style.strokeWidth = config.highlightedStrokeWidth
                 /\ styledEdges[i].style.stroke = config.highlightedEdgeColor
                 /\ styledEdges[i].animated = TRUE
                 /\ config = DEFAULT_HIGHLIGHTING_CONFIG =>
                       /\ styledEdges[i].style.strokeWidth = 3
                       /\ styledEdges[i].style.stroke = "#3b82f6"
            ELSE /\ styledEdges[i].style.strokeWidth = config.normalStrokeWidth
                 /\ styledEdges[i].style.stroke = config.normalEdgeColor
                 /\ styledEdges[i].animated = FALSE
                 /\ config = DEFAULT_HIGHLIGHTING_CONFIG =>
                       /\ styledEdges[i].style.strokeWidth = 2
                       /\ styledEdges[i].style.stroke = "#6b7280"

\* without a selection, a highlighted edge next to one that is not
C8_Witness ==
    /\ EdgesStyled
    /\ selectedNodeId = Null
    /\ config = DEFAULT_HIGHLIGHTING_CONFIG
    /\ \E i, j \in DOMAIN edges :
          /\ edges[i].id \in highlightingResult.highlightedEdges
          /\ styledEdges[i].animated /\ ~edges[i].animated
          /\ styledEdges[i].style.strokeWidth = 3
          /\ edges[j].id \notin highlightingResult.highlightedEdges
          /\ ~styledEdges[j].animated /\ edges[j].animated
          /\ styledEdges[j].style.stroke = "#6b7280"

-----------------------------------------------------------------------------
(* C9 *)

\* C9: a styled edge gets config.highlightedOpacity while the selection is
\* absent; while it is present the edge gets config.highlightedOpacity if
\* its id is in highlightedEdges and config.dimmedOpacity otherwise.
C9_EdgeOpacity ==
    EdgesStyled =>
        \A i \in DOMAIN edges :
            styledEdges[i].style.opacity =
                IF selectedNodeId = Null \/ selectedNodeId = ""
                THEN config.highlightedOpacity
                ELSE IF edges[i].id \in highlightingResult.highlightedEdges
                     THEN config.highlightedOpacity
                     ELSE config.dimmedOpacity

\* without a selection an edge outside highlightedEdges keeps full opacity
C9_Witness ==
    /\ EdgesStyled
    /\ selectedNodeId = Null
    /\ highlightingResult.highlightedEdges # {}
    /\ \E i \in DOMAIN edges :
          /\ edges[i].id \notin highlightingResult.highlightedEdges
          /\ styledEdges[i].style.opacity = config.highlightedOpacity

-----------------------------------------------------------------------------
(* C10 *)

\* C10: applyCompleteHighlighting returns the result of
\* calculateHighlighting(selected, edges) and the nodes and the edges styled
\* from that same result and the same selection.
C10_CompleteComposition ==
    CompleteReturned =>
        /\ highlightingResult = calculateHighlighting(selectedNodeId, edges)
        /\ styledNodes =
              applyNodeHighlighting(nodes, highlightingResult, selectedNodeId, config)
        /\ styledEdges =
              applyEdgeHighlighting(edges, highlightingResult, selectedNodeId, config)

\* a call that highlights an edge and a neighbour and dims another node
C10_Witness ==
    /\ CompleteReturned
    /\ Truthy(selectedNodeId)
    /\ \E i \in DOMAIN styledEdges : styledEdges[i].animated
    /\ \E i, j \in DOMAIN styledNodes :
          /\ nodes[i].id # selectedNodeId
          /\ nodes[i].type = "custom"
          /\ styledNodes[i].style.opacity = config.highlightedOpacity
          /\ styledNodes[j].style.opacity = config.dimmedOpacity

-----------------------------------------------------------------------------
(* C11 *)

\* C11: both projectors keep the length and the order of their input, the
\* id of every element and every field they do not set: type, source,
\* target, and every style key other than opacity (nodes) or strokeWidth,
\* stroke and opacity (edges).
C11_FramePreserved ==
    /\ NodesStyled =>
          /\ Len(styledNodes) = Len(nodes)
          /\ \A i \in DOMAIN nodes :
                /\ styledNodes[i].id = nodes[i].id
                /\ styledNodes[i].type = nodes[i].type
                /\ DOMAIN styledNodes[i].style = DOMAIN nodes[i].style \cup {"opacity"}
                /\ \A k \in DOMAIN nodes[i].style \ {"opacity"} :
                      styledNodes[i].style[k] = nodes[i].style[k]
    /\ EdgesStyled =>
          /\ Len(styledEdges) = Len(edges)
          /\ \A i \in DOMAIN edges :
                /\ styledEdges[i].id = edges[i].id
                /\ styledEdges[i].source = edges[i].source
                /\ styledEdges[i].target = edges[i].target
                /\ DOMAIN styledEdges[i].style =
                      DOMAIN edges[i].style \cup {"strokeWidth", "stroke", "opacity"}
                /\ \A k \in DOMAIN edges[i].style \ {"strokeWidth", "stroke", "opacity"} :
                      styledEdges[i].style[k] = edges[i].style[k]

\* two nodes with different ids, one carrying a style key the projector does
\* not set, and two edges with different ends
C11_Witness ==
    /\ CompleteReturned
    /\ Len(nodes) = 2 /\ nodes[1].id # nodes[2].id
    /\ "width" \in DOMAIN nodes[2].style
    /\ styledNodes[2].style.width = nodes[2].style.width
    /\ styledNodes[2].style.opacity # nodes[2].style.opacity
    /\ Len(edges) = 2 /\ edges[1].source # edges[2].source
    /\ styledEdges[1].source = edges[1].source
    /\ styledEdges[2].target = edges[2].target

-----------------------------------------------------------------------------
(* C12 *)

\* C12: no step of calculateHighlighting, applyNodeHighlighting,
\* applyEdgeHighlighting or applyCompleteHighlighting changes the caller's
\* node sequence, edge sequence or their elements, and the projectors leave
\* the highlight result they are given as it was.
C12_InputsNotMutated ==
    [][ /\ nodes' = nodes
        /\ edges' = edges
        /\ (\/ op \in {"applyNodeHighlighting", "applyEdgeHighlighting"}
            \/ pc \in {"calculated", "nodesStyled"})
              => highlightingResult' = highlightingResult ]_vars

\* after the call the caller's node still carries its old opacity, while the
\* styled copy carries the new one
C12_Witness ==
    /\ NodesStyled
    /\ op = "applyNodeHighlighting"
    /\ \E i \in DOMAIN nodes :
          /\ "opacity" \in DOMAIN nodes[i].style
          /\ nodes[i].style.opacity = 30
          /\ styledNodes[i].style.opacity = 100
          /\ nodes[i].id \in highlightingResult.highlightedNodes

-----------------------------------------------------------------------------
(* C14 *)

Range(es) == {es[i] : i \in DOMAIN es}

\* the sequences made of the same edges: every permutation of es, and every
\* sequence one longer in which an edge of es is repeated
Rearranged(es) ==
    {r \in [1..Len(es) -> Range(es)] \cup [1..(Len(es) + 1) -> Range(es)] :
        Range(r) = Range(es)}

\* C14: calculateHighlighting returns the same two sets for every
\* permutation of the edge sequence and for every sequence that repeats
\* some of its edges.
C14_OrderAndMultiplicity ==
    CalculateReturned =>
        \A r \in Rearranged(edges) :
            calculateHighlighting(selectedNodeId, r) = highlightingResult

\* two different edges incident to the selection, with different far ends
C14_Witness ==
    /\ CalculateReturned
    /\ Truthy(selectedNodeId)
    /\ Len(edges) = 2
    /\ edges[1].id # edges[2].id
    /\ edges[1].source = selectedNodeId /\ edges[2].source = selectedNodeId
    /\ edges[1].target # edges[2].target
    /\ edges[1].target # selectedNodeId /\ edges[2].target # selectedNodeId
    /\ Cardinality(highlightingResult.highlightedNodes) = 3
    /\ Cardinality(highlightingResult.highlightedEdges) = 2
    /\ Cardinality(Rearranged(edges)) > 2

-----------------------------------------------------------------------------
(* C18 *)

\* C18: in the output of applyCompleteHighlighting for a selection that is
\* present and edge ids that are unique in the sequence, every styled edge
\* with animated = TRUE has its source and its target in highlightedNodes,
\* and every node whose id is one of these ends has
\* config.highlightedOpacity.
C18_AnimatedEdgeEndsLit ==
    (CompleteReturned /\ Truthy(selectedNodeId) /\ UniqueEdgeIds) =>
        \A i \in DOMAIN styledEdges :
            styledEdges[i].animated =>
                /\ edges[i].source \in highlightingResult.highlightedNodes
                /\ edges[i].target \in highlightingResult.highlightedNodes
                /\ \A j \in DOMAIN nodes :
                      nodes[j].id \in {edges[i].source, edges[i].target} =>
                          styledNodes[j].style.opacity = config.highlightedOpacity

\* an animated edge that leaves a neighbour and enters the selection, both
\* ends being custom nodes of the sequence, next to a dimmed node
C18_Witness ==
    /\ CompleteReturned
    /\ Truthy(selectedNodeId)
    /\ UniqueEdgeIds
    /\ \E i \in DOMAIN styledEdges, j, k, l \in DOMAIN nodes :
          /\ styledEdges[i].animated
          /\ edges[i].target = selectedNodeId /\ edges[i].source # selectedNodeId
          /\ nodes[j].id = edges[i].source /\ nodes[j].type = "custom"
          /\ nodes[k].id = edges[i].target /\ nodes[k].type = "custom"
          /\ styledNodes[j].style.opacity = config.highlightedOpacity
          /\ styledNodes[l].style.opacity = config.dimmedOpacity

-----------------------------------------------------------------------------
(* applyCompleteHighlighting as a function of its arguments *)

applyCompleteHighlighting(ns, es, selected, cfg) ==
    LET result == calculateHighlighting(selected, es)
    IN  [styledNodes        |-> applyNodeHighlighting(ns, result, selected, cfg),
         styledEdges        |-> applyEdgeHighlighting(es, result, selected, cfg),
         highlightingResult |-> result]

-----------------------------------------------------------------------------
(* C20 *)

\* C20: applyCompleteHighlighting called with the empty string returns the
\* highlightingResult, styledNodes and styledEdges it returns for null with
\* the same nodes, edges and config, also when an edge has "" as an end or a
\* node has the id "".
C20_EmptyStringLikeNull ==
    (CompleteReturned /\ selectedNodeId = "") =>
        LET forNull == applyCompleteHighlighting(nodes, edges, Null, config)
        IN  /\ highlightingResult = forNull.highlightingResult
            /\ styledNodes = forNull.styledNodes
            /\ styledEdges = forNull.styledEdges

\* the empty string is selected, an edge ends in "" and a node has the id ""
C20_Witness ==
    /\ CompleteReturned
    /\ selectedNodeId = ""
    /\ \E i \in DOMAIN edges : edges[i].source = "" /\ edges[i].target # ""
    /\ \E j \in DOMAIN nodes : nodes[j].id = ""
    /\ \E k \in DOMAIN nodes :
          /\ nodes[k].type = "custom"
          /\ styledNodes[k].style.opacity = config.highlightedOpacity
    /\ highlightingResult = EmptyResult
    /\ \A i \in DOMAIN styledEdges : ~styledEdges[i].animated

-----------------------------------------------------------------------------
(* The Flow component: constants and data *)

SECTION_IDS == <<"bg-origination", "bg-validation", "bg-middleware", "bg-processing">>

\* in hundredths: 0.2, 0.2, 0.25, 0.35
SECTION_WIDTH_PROPORTIONS == <<20, 20, 25, 35>>

GAP_WIDTH == 16

\* { ...DEFAULT_HIGHLIGHTING_CONFIG } with no override
CUSTOM_HIGHLIGHTING_CONFIG == Spread(DEFAULT_HIGHLIGHTING_CONFIG, <<>>)

\* the string `${n}px`, and the number Number.parseFloat reads back from it
Px(n) == [px |-> n]
parseFloat(s) == s.px

\* The diagram of @/lib/flow-data (that module is not among the sources): two
\* of the sections of SECTION_IDS, a custom node in each, and a custom node
\* without a parent.
initialNodes ==
    << [id |-> "bg-origination", type |-> "background", parentId |-> Null,
        position |-> [x |-> 0, y |-> 0],
        style |-> [width |-> Px(200), height |-> Px(600)]],
       [id |-> "bg-validation", type |-> "background", parentId |-> Null,
        position |-> [x |-> 216, y |-> 0],
        style |-> [width |-> Px(200), height |-> Px(600)]],
       [id |-> "n1", type |-> "custom", parentId |-> "bg-origination",
        position |-> [x |-> 50, y |-> 100], style |-> NoStyle],
       [id |-> "n2", type |-> "custom", parentId |-> "bg-validation",
        position |-> [x |-> 266, y |-> 100], style |-> NoStyle],
       [id |-> "n3", type |-> "custom", parentId |-> Null,
        position |-> [x |-> 500, y |-> 300], style |-> NoStyle] >>

initialEdges ==
    << [id |-> "e1", source |-> "n1", target |-> "n2",
        sourceHandle |-> Null, targetHandle |-> Null,
        type |-> "smoothstep", style |-> NoStyle, animated |-> FALSE],
       [id |-> "e2", source |-> "n2", target |-> "n3",
        sourceHandle |-> Null, targetHandle |-> Null,
        type |-> "smoothstep", style |-> NoStyle, animated |-> FALSE] >>

\* parentId becomes parentNode; a node without parentId has no parentNode
transformNodes(ns) ==
    [i \in DOMAIN ns |->
        [id        |-> ns[i].id,
         type      |-> ns[i].type,
         position  |-> ns[i].position,
         style     |-> ns[i].style,
         parentNode |-> IF Truthy(ns[i].parentId) THEN ns[i].parentId ELSE Null]]

reactFlowNodes == transformNodes(initialNodes)

\* Array.prototype.findIndex on the id, 0 standing for -1
findIndex(ns, id) ==
    IF \E i \in DOMAIN ns : ns[i].id = id
    THEN CHOOSE i \in DOMAIN ns :
            /\ ns[i].id = id
            /\ \A j \in DOMAIN ns : ns[j].id = id => i <= j
    ELSE 0

-----------------------------------------------------------------------------
(* The layout effect (lines 92-149) *)

\* first loop: place the sections that are present, left to right
RECURSIVE layoutSections(_, _, _, _, _, _)
layoutSections(i, newNodes, currentX, sectionDimensions, availableWidth, height) ==
    IF i > Len(SECTION_IDS)
    THEN [newNodes |-> newNodes, sectionDimensions |-> sectionDimensions]
    ELSE LET sectionId == SECTION_IDS[i]
             nodeIndex == findIndex(newNodes, sectionId)
             sectionWidth == (availableWidth * SECTION_WIDTH_PROPORTIONS[i]) \div 100
         IN  IF nodeIndex # 0
             THEN layoutSections(
                     i + 1,
                     [newNodes EXCEPT ![nodeIndex] =
                         [@ EXCEPT !.position = [x |-> currentX, y |-> 0],
                                   !.style = Spread(@, [width  |-> Px(sectionWidth),
                                                        height |-> Px(height)])]],
                     currentX + sectionWidth + GAP_WIDTH,
                     sectionDimensions \cup
                         {[id |-> sectionId, x |-> currentX, width |-> sectionWidth]},
                     availableWidth, height)
             ELSE layoutSections(i + 1, newNodes, currentX, sectionDimensions,
                                 availableWidth, height)

\* second loop, one node: keep the node's relative offset inside its section
layoutChild(node, sectionDimensions) ==
    IF /\ Truthy(node.parentNode)
       /\ \E d \in sectionDimensions : d.id = node.parentNode
    THEN LET parentDimensions == CHOOSE d \in sectionDimensions : d.id = node.parentNode
             originalNode   == findIndex(reactFlowNodes, node.id)
             originalParent == findIndex(reactFlowNodes, node.parentNode)
         IN  IF /\ originalNode # 0
                /\ originalParent # 0
                /\ "width" \in DOMAIN reactFlowNodes[originalParent].style
             THEN LET originalParentWidth ==
                          parseFloat(reactFlowNodes[originalParent].style.width)
                      originalRelativeXOffset ==
                          reactFlowNodes[originalNode].position.x
                            - reactFlowNodes[originalParent].position.x
                      newAbsoluteX ==
                          parentDimensions.x
                            + (originalRelativeXOffset * parentDimensions.width)
                                \div originalParentWidth
                  IN  [node EXCEPT !.position = [x |-> newAbsoluteX, y |-> node.position.y]]
             ELSE node
    ELSE node

\* the updater passed to setNodes
layoutNodes(currentNodes, width, height) ==
    LET totalGapWidth == GAP_WIDTH * (Len(SECTION_IDS) - 1)
        first == layoutSections(1, currentNodes, 0, {}, width - totalGapWidth, height)
    IN  [i \in DOMAIN first.newNodes |->
            layoutChild(first.newNodes[i], first.sectionDimensions)]

-----------------------------------------------------------------------------
(* The functions of @xyflow/react the handlers call *)

\* one change of applyNodeChanges: a removal drops the node, a position
\* change replaces its position, a change for an unknown id changes nothing
applyNodeChange(change, nds) ==
    IF change.type = "remove"
    THEN SelectSeq(nds, LAMBDA n : n.id # change.id)
    ELSE IF change.type = "position"
    THEN [i \in DOMAIN nds |->
             IF nds[i].id = change.id
             THEN [nds[i] EXCEPT !.position = change.position]
             ELSE nds[i]]
    ELSE nds

RECURSIVE applyNodeChangesFrom(_, _, _)
applyNodeChangesFrom(i, changes, nds) ==
    IF i > Len(changes) THEN nds
    ELSE applyNodeChangesFrom(i + 1, changes, applyNodeChange(changes[i], nds))

applyNodeChanges(changes, nds) == applyNodeChangesFrom(1, changes, nds)

\* applyEdgeChanges: a removal drops the edge
applyEdgeChange(change, eds) ==
    IF change.type = "remove"
    THEN SelectSeq(eds, LAMBDA e : e.id # change.id)
    ELSE eds

RECURSIVE applyEdgeChangesFrom(_, _, _)
applyEdgeChangesFrom(i, changes, eds) ==
    IF i > Len(changes) THEN eds
    ELSE applyEdgeChangesFrom(i + 1, changes, applyEdgeChange(changes[i], eds))

applyEdgeChanges(changes, eds) == applyEdgeChangesFrom(1, changes, eds)

\* handle || ''
orEmpty(h) == IF Truthy(h) THEN h ELSE ""

\* the id addEdge gives an edge that has none
getEdgeId(c) ==
    "xy-edge__" \o c.source \o orEmpty(c.sourceHandle)
        \o "-" \o c.target \o orEmpty(c.targetHandle)

connectionExists(edge, eds) ==
    \E i \in DOMAIN eds :
        /\ eds[i].source = edge.source
        /\ eds[i].target = edge.target
        /\ orEmpty(eds[i].sourceHandle) = orEmpty(edge.sourceHandle)
        /\ orEmpty(eds[i].targetHandle) = orEmpty(edge.targetHandle)

\* addEdge: no edge without both ends, no second edge for a connection
addEdge(edgeParams, eds) ==
    IF ~Truthy(edgeParams.source) \/ ~Truthy(edgeParams.target)
    THEN eds
    ELSE LET edge == [id           |-> getEdgeId(edgeParams),
                      source       |-> edgeParams.source,
                      target       |-> edgeParams.target,
                      sourceHandle |-> edgeParams.sourceHandle,
                      targetHandle |-> edgeParams.targetHandle,
                      type         |-> edgeParams.type,
                      style        |-> edgeParams.style,
                      animated     |-> FALSE]
         IN  IF connectionExists(edge, eds) THEN eds ELSE Append(eds, edge)

-----------------------------------------------------------------------------
(* The Flow component: rendering *)

\* slip: nodes is missing from the dependency array
memoDeps_NodesMissing(ns, es, selected) == <<es, selected>>

\* the dependency array of the useMemo at lines 182-184
memoDeps(ns, es, selected) == <<ns, es, selected>>

\* useMemo: the previous value while the dependencies are the same
useMemo(previous, oldDeps, newDeps, value) ==
    IF newDeps = oldDeps THEN previous ELSE value

\* the render that follows a state change to ns, es, selected
Render(ns, es, selected) ==
    LET memo == useMemo([styledNodes        |-> styledNodes,
                         styledEdges        |-> styledEdges,
                         highlightingResult |-> highlightingResult],
                        memoDeps(nodes, edges, selectedNodeId),
                        memoDeps(ns, es, selected),
                        applyCompleteHighlighting(ns, es, selected,
                                                  CUSTOM_HIGHLIGHTING_CONFIG))
    IN  /\ styledNodes' = memo.styledNodes
        /\ styledEdges' = memo.styledEdges
        /\ highlightingResult' = memo.highlightingResult

-----------------------------------------------------------------------------
(* The Flow component: events a user can cause *)

Viewports == {[width |-> 0, height |-> 0],
              [width |-> 848, height |-> 600],
              [width |-> 1248, height |-> 700]}

\* a section or a custom node is deleted, or the parentless node is dragged
NodeChanges(ns) ==
    {[type |-> "remove", id |-> ns[i].id, position |-> ns[i].position] :
        i \in {j \in DOMAIN ns : ns[j].id \in {"bg-origination", "n1", "n3"}}}
    \cup {[type |-> "position", id |-> "n3", position |-> [x |-> 520, y |-> 320]]}

EdgeChanges(es) ==
    {[type |-> "remove", id |-> es[i].id] : i \in DOMAIN es}

\* connections drawn between handles of custom nodes that are rendered
Connections(ns) ==
    {c \in [source : {"n1", "n3"}, target : {"n1", "n2"},
            sourceHandle : {Null}, targetHandle : {Null}] :
        /\ c.source # c.target
        /\ c.source = "n3" => c.target = "n1"
        /\ \E i \in DOMAIN ns : ns[i].id = c.source /\ ns[i].type = "custom"
        /\ \E i \in DOMAIN ns : ns[i].id = c.target /\ ns[i].type = "custom"}

-----------------------------------------------------------------------------
(* The Flow component: initial state and handlers *)

\* mounted: the state of the three useState calls, the store not yet
\* measured, and the first render
InitFlow ==
    /\ op = "Flow"
    /\ pc = "rendered"
    /\ config = CUSTOM_HIGHLIGHTING_CONFIG
    /\ nodes = reactFlowNodes
    /\ edges = initialEdges
    /\ selectedNodeId = Null
    /\ viewport = [width |-> 0, height |-> 0]
    /\ event = [kind |-> "mount", id |-> Null, type |-> Null]
    /\ activeIds = {}
    /\ LET first == applyCompleteHighlighting(reactFlowNodes, initialEdges, Null,
                                              CUSTOM_HIGHLIGHTING_CONFIG)
       IN  /\ styledNodes = first.styledNodes
           /\ styledEdges = first.styledEdges
           /\ highlightingResult = first.highlightingResult

\* slip: the guard for background nodes is left out
selectionAfterNodeClick_NoBackgroundGuard(currentId, node) ==
    IF currentId = node.id THEN Null ELSE node.id

\* slip: a click always selects, it never deselects
selectionAfterNodeClick_NoToggle(currentId, node) ==
    IF node.type = "background" THEN Null ELSE node.id

\* the value onNodeClick leaves in selectedNodeId (lines 72-81)
selectionAfterNodeClick(currentId, node) ==
    IF node.type = "background"
    THEN Null
    ELSE IF currentId = node.id THEN Null ELSE node.id

onNodeClick ==
    /\ op = "Flow"
    /\ \E i \in DOMAIN styledNodes :
          LET node == styledNodes[i]
              selected == selectionAfterNodeClick(selectedNodeId, node)
          IN  /\ selectedNodeId' = selected
              /\ event' = [kind |-> "nodeClick", id |-> node.id, type |-> node.type]
              /\ Render(nodes, edges, selected)
    /\ UNCHANGED <<activeIds, op, pc, config, nodes, edges, viewport>>

onPaneClick ==
    /\ op = "Flow"
    /\ selectedNodeId' = Null
    /\ event' = [kind |-> "paneClick", id |-> Null, type |-> Null]
    /\ Render(nodes, edges, Null)
    /\ UNCHANGED <<activeIds, op, pc, config, nodes, edges, viewport>>

onNodesChange ==
    /\ op = "Flow"
    /\ \E change \in NodeChanges(nodes) :
          LET nds == applyNodeChanges(<<change>>, nodes)
          IN  /\ nodes' = nds
              /\ event' = [kind |-> "nodesChange", id |-> change.id, type |-> change.type]
              /\ Render(nds, edges, selectedNodeId)
    /\ UNCHANGED <<activeIds, op, pc, config, edges, selectedNodeId, viewport>>

onEdgesChange ==
    /\ op = "Flow"
    /\ \E change \in EdgeChanges(edges) :
          LET eds == applyEdgeChanges(<<change>>, edges)
          IN  /\ edges' = eds
              /\ event' = [kind |-> "edgesChange", id |-> change.id, type |-> change.type]
              /\ Render(nodes, eds, selectedNodeId)
    /\ UNCHANGED <<activeIds, op, pc, config, nodes, selectedNodeId, viewport>>

onConnect ==
    /\ op = "Flow"
    /\ \E connection \in Connections(nodes) :
          LET eds == addEdge([source       |-> connection.source,
                              target       |-> connection.target,
                              sourceHandle |-> connection.sourceHandle,
                              targetHandle |-> connection.targetHandle,
                              type         |-> "smoothstep",
                              style        |-> [strokeWidth |-> 2, stroke |-> "#6b7280"]],
                             edges)
          IN  /\ edges' = eds
              /\ event' = [kind |-> "connect", id |-> getEdgeId(connection), type |-> Null]
              /\ Render(nodes, eds, selectedNodeId)
    /\ UNCHANGED <<activeIds, op, pc, config, nodes, selectedNodeId, viewport>>

\* the store reports a new size; the layout effect runs after the render
ViewportResize ==
    /\ op = "Flow"
    /\ \E v \in Viewports \ {viewport} :
          LET nds == IF v.width > 0 /\ v.height > 0
                     THEN layoutNodes(nodes, v.width, v.height)
                     ELSE nodes
          IN  /\ viewport' = v
              /\ nodes' = nds
              /\ event' = [kind |-> "resize", id |-> Null, type |-> Null]
              /\ Render(nds, edges, selectedNodeId)
    /\ UNCHANGED <<activeIds, op, pc, config, edges, selectedNodeId>>

NextFlow ==
    \/ onNodeClick
    \/ onPaneClick
    \/ onNodesChange
    \/ onEdgesChange
    \/ onConnect
    \/ ViewportResize

SpecFlow == InitFlow /\ [][NextFlow]_vars

-----------------------------------------------------------------------------
(* C15 *)

\* C15: a click on a node that is not a background node sets selectedNodeId
\* to null if it was that node's id and to that node's id otherwise; a click
\* on the pane sets it to null from any state.
C15_ClickTogglesSelection ==
    [][ /\ (event'.kind = "nodeClick" /\ event'.type # "background") =>
              selectedNodeId' = IF selectedNodeId = event'.id THEN Null ELSE event'.id
        /\ event'.kind = "paneClick" => selectedNodeId' = Null ]_vars

\* a custom node was clicked and nothing is selected: the click deselected it
C15_Witness ==
    /\ op = "Flow"
    /\ event.kind = "nodeClick"
    /\ event.type = "custom"
    /\ selectedNodeId = Null

-----------------------------------------------------------------------------
(* C16 *)

\* C16: selectedNodeId is never the id of a background node, and right after
\* a click on a background node nothing is selected, as after a pane click.
C16_BackgroundNeverSelected ==
    op = "Flow" =>
        /\ \A i \in DOMAIN nodes :
              nodes[i].type = "background" => selectedNodeId # nodes[i].id
        /\ \A i \in DOMAIN reactFlowNodes :
              reactFlowNodes[i].type = "background" => selectedNodeId # reactFlowNodes[i].id
        /\ (event.kind = "nodeClick" /\ event.type = "background") =>
              selectedNodeId = Null

\* a background node was clicked; nothing is selected and no node is dimmed
C16_Witness ==
    /\ op = "Flow"
    /\ event.kind = "nodeClick"
    /\ event.type = "background"
    /\ selectedNodeId = Null
    /\ \A i \in DOMAIN styledNodes :
          styledNodes[i].style.opacity = CUSTOM_HIGHLIGHTING_CONFIG.highlightedOpacity

-----------------------------------------------------------------------------
(* C17 *)

\* C17: after every event the styledNodes and styledEdges handed to the
\* renderer are those applyCompleteHighlighting returns for the current
\* nodes, edges and selectedNodeId.
C17_RenderedStylingFresh ==
    op = "Flow" =>
        LET fresh == applyCompleteHighlighting(nodes, edges, selectedNodeId,
                                               CUSTOM_HIGHLIGHTING_CONFIG)
        IN  /\ styledNodes = fresh.styledNodes
            /\ styledEdges = fresh.styledEdges

\* a node is selected, a node has been removed, the viewport has been
\* measured, and an edge added by onConnect is rendered animated
C17_Witness ==
    /\ op = "Flow"
    /\ selectedNodeId = "n1"
    /\ Len(nodes) < Len(reactFlowNodes)
    /\ viewport.width > 0
    /\ \E i \in DOMAIN styledEdges :
          /\ styledEdges[i].id = "xy-edge__n3-n1"
          /\ styledEdges[i].animated
    /\ \E j \in DOMAIN styledNodes :
          styledNodes[j].style.opacity = CUSTOM_HIGHLIGHTING_CONFIG.dimmedOpacity

-----------------------------------------------------------------------------
(* C19 *)

\* C19: selectedNodeId is null or the id of a node that is in the node list.
C19_SelectionIsPresentNode ==
    op = "Flow" =>
        \/ selectedNodeId = Null
        \/ \E i \in DOMAIN nodes : nodes[i].id = selectedNodeId

-----------------------------------------------------------------------------
(* The Flow component of src/changes/flow-diagram.tsx: highlighting with   *)
(* getCluster instead of the functions of highlighting-logic.ts            *)

\* the most edges the diagram data of this component starts with
MaxDiagramEdges == 2

\* one pass of the loop at lines 64-70: the target of an edge that leaves
\* rootId, else the source of an edge that enters it
visitClusterEdge(cluster, edge, rootId) ==
    IF edge.source = rootId
    THEN cluster \cup {edge.target}
    ELSE IF edge.target = rootId
    THEN cluster \cup {edge.source}
    ELSE cluster

RECURSIVE forEachClusterEdge(_, _, _, _)
forEachClusterEdge(es, i, cluster, rootId) ==
    IF i > Len(es) THEN cluster
    ELSE forEachClusterEdge(es, i + 1, visitClusterEdge(cluster, es[i], rootId), rootId)

\* getCluster (lines 59-73): rootId and its 1-hop neighbours
getCluster(rootId, es) == forEachClusterEdge(es, 1, {rootId}, rootId)

\* nodesWithActiveClass (lines 100-105); an undefined className is Null
nodesWithActiveClass(ns, ids) ==
    [i \in DOMAIN ns |->
        [id         |-> ns[i].id,
         type       |-> ns[i].type,
         position   |-> ns[i].position,
         style      |-> ns[i].style,
         parentNode |-> ns[i].parentNode,
         className  |-> IF ns[i].id \in ids THEN "node--active" ELSE Null]]

\* isActive of line 110
isActive(edge, ids) == edge.source \in ids /\ edge.target \in ids

\* edgesWithAnimation (lines 108-119)
edgesWithAnimation(es, ids) ==
    [i \in DOMAIN es |->
        [es[i] EXCEPT
            !.animated = isActive(es[i], ids),
            !.style    = IF isActive(es[i], ids)
                         THEN Spread(es[i].style, [strokeWidth |-> 3])
                         ELSE es[i].style]]

\* the render that follows a state change to ns, es, ids: the two useMemo
\* calls list every value they read, [nodes, activeIds] and [edges, activeIds]
RenderDiagram(ns, es, ids) ==
    /\ styledNodes' = useMemo(styledNodes, <<nodes, activeIds>>, <<ns, ids>>,
                              nodesWithActiveClass(ns, ids))
    /\ styledEdges' = useMemo(styledEdges, <<edges, activeIds>>, <<es, ids>>,
                              edgesWithAnimation(es, ids))

\* the id of the i-th edge of the diagram data
diagramEdgeId(i) == "e" \o ToString(i)

\* edge lists this component can be given as initialEdges: up to
\* MaxDiagramEdges edges between the custom nodes, loops included, each
\* with an id of its own
DiagramEdges ==
    UNION {
        {[i \in 1..k |->
             [id |-> diagramEdgeId(i), source |-> ends[i][1], target |-> ends[i][2],
              sourceHandle |-> Null, targetHandle |-> Null,
              type |-> "parallel", style |-> NoStyle, animated |-> FALSE]] :
            ends \in [1..k -> {"n1", "n2", "n3"} \X {"n1", "n2", "n3"}]} :
        k \in 0..MaxDiagramEdges}

\* mounted (lines 77-81) and rendered for the first time.  width and height
\* are no fields of what useViewport returns, so the guard of the layout
\* effect (line 122) never holds and the effect leaves nodes alone.
InitDiagram ==
    /\ op = "FlowDiagram"
    /\ pc = "rendered"
    /\ config = DEFAULT_HIGHLIGHTING_CONFIG
    /\ nodes = reactFlowNodes
    /\ edges \in DiagramEdges
    /\ selectedNodeId = Null
    /\ highlightingResult = EmptyResult
    /\ viewport = NoViewport
    /\ event = [kind |-> "mount", id |-> Null, type |-> Null]
    /\ activeIds = {}
    /\ styledNodes = nodesWithActiveClass(reactFlowNodes, {})
    /\ styledEdges = edgesWithAnimation(edges, {})

\* the value onNodeClick leaves in activeIds (lines 88-91)
activeIdsAfterNodeClick(current, node, es) ==
    IF node.type = "custom" THEN getCluster(node.id, es) ELSE current

DiagramOnNodeClick ==
    /\ op = "FlowDiagram"
    /\ \E i \in DOMAIN styledNodes :
          LET node == styledNodes[i]
              cluster == activeIdsAfterNodeClick(activeIds, node, edges)
          IN  /\ activeIds' = cluster
              /\ event' = [kind |-> "nodeClick", id |-> node.id, type |-> node.type]
              /\ RenderDiagram(nodes, edges, cluster)
    /\ UNCHANGED <<op, pc, config, nodes, edges, selectedNodeId,
                   highlightingResult, viewport>>

DiagramOnPaneClick ==
    /\ op = "FlowDiagram"
    /\ activeIds' = {}
    /\ event' = [kind |-> "paneClick", id |-> Null, type |-> Null]
    /\ RenderDiagram(nodes, edges, {})
    /\ UNCHANGED <<op, pc, config, nodes, edges, selectedNodeId,
                   highlightingResult, viewport>>

\* the parentless custom node is deleted
DiagramNodeChanges(ns) ==
    {change \in NodeChanges(ns) : change.type = "remove" /\ change.id = "n3"}

DiagramOnNodesChange ==
    /\ op = "FlowDiagram"
    /\ \E change \in DiagramNodeChanges(nodes) :
          LET nds == applyNodeChanges(<<change>>, nodes)
          IN  /\ nodes' = nds
              /\ event' = [kind |-> "nodesChange", id |-> change.id, type |-> change.type]
              /\ RenderDiagram(nds, edges, activeIds)
    /\ UNCHANGED <<op, pc, config, edges, selectedNodeId, highlightingResult,
                   viewport, activeIds>>

DiagramOnEdgesChange ==
    /\ op = "FlowDiagram"
    /\ \E change \in EdgeChanges(edges) :
          LET eds == applyEdgeChanges(<<change>>, edges)
          IN  /\ edges' = eds
              /\ event' = [kind |-> "edgesChange", id |-> change.id, type |-> change.type]
              /\ RenderDiagram(nodes, eds, activeIds)
    /\ UNCHANGED <<op, pc, config, nodes, selectedNodeId, highlightingResult,
                   viewport, activeIds>>

DiagramOnConnect ==
    /\ op = "FlowDiagram"
    /\ \E connection \in Connections(nodes) :
          LET eds == addEdge([source       |-> connection.source,
                              target       |-> connection.target,
                              sourceHandle |-> connection.sourceHandle,
                              targetHandle |-> connection.targetHandle,
                              type         |-> "parallel",
                              style        |-> [strokeWidth |-> 2, stroke |-> "#6b7280"]],
                             edges)
          IN  /\ edges' = eds
              /\ event' = [kind |-> "connect", id |-> getEdgeId(connection), type |-> Null]
              /\ RenderDiagram(nodes, eds, activeIds)
    /\ UNCHANGED <<op, pc, config, nodes, selectedNodeId, highlightingResult,
                   viewport, activeIds>>

NextDiagram ==
    \/ DiagramOnNodeClick
    \/ DiagramOnPaneClick
    \/ DiagramOnNodesChange
    \/ DiagramOnEdgesChange
    \/ DiagramOnConnect

SpecDiagram == InitDiagram /\ [][NextDiagram]_vars

-----------------------------------------------------------------------------
(* C21 *)

\* C21: right after a click on a custom node r, with unique edge ids, an edge
\* is rendered animated exactly when its id is in
\* calculateHighlighting(r, edges).highlightedEdges, that is, exactly when
\* r is its source or its target.
C21_SameAnimatedEdges ==
    (/\ op = "FlowDiagram"
     /\ event.kind = "nodeClick"
     /\ event.type = "custom"
     /\ UniqueEdgeIds) =>
        \A i \in DOMAIN edges :
            /\ styledEdges[i].animated <=>
                  edges[i].id \in calculateHighlighting(event.id, edges).highlightedEdges
            /\ styledEdges[i].animated <=>
                  (edges[i].source = event.id \/ edges[i].target = event.id)

====
